---- MODULE Spec2Model ----
(***************************************************************************)
(* Model of packages/ai-chat/src/common/chat-model.ts: the response        *)
(* content aggregation (ChatResponseImpl and the content classes) and the  *)
(* response lifecycle (MutableChatResponseModel).                          *)
(*                                                                         *)
(* JavaScript strings are TLA+ strings, concatenated with \o.  A value     *)
(* that may be undefined is an option: Undefined, or Some(v).              *)
(***************************************************************************)
EXTENDS Integers, Sequences, FiniteSets, TLC

\* ------------------------------------------------------------------ bounds
\* fragments the producer delivers to one response
MaxFragments == 3
\* fragments in one addContents batch
MaxBatch == 2
\* progress messages of one response
MaxProgress == 2

\* ----------------------------------------------------------------- options
Undefined == <<>>

Some(v) == <<v>>

\* `${x}`: a template literal renders undefined as the text "undefined"
TemplateString(opt) == IF opt = Undefined THEN "undefined" ELSE opt[1]

\* x ?? d
OrElse(opt, d) == IF opt = Undefined THEN d ELSE opt[1]

\* ------------------------------------------------- content element classes
TextChatResponseContentImpl(content) ==
    [kind |-> "text", content |-> content]

MarkdownChatResponseContentImpl(content) ==
    [kind |-> "markdownContent", content |-> content]

InformationalChatResponseContentImpl(content) ==
    [kind |-> "informational", content |-> content]

CodeChatResponseContentImpl(code, language) ==
    [kind |-> "code", code |-> code, language |-> language]

ToolCallChatResponseContentImpl(id, name, arg_string, finished, result) ==
    [kind |-> "toolCall", id |-> id, name |-> name, arguments |-> arg_string,
     finished |-> finished, result |-> result]

CommandChatResponseContentImpl(commandId, label) ==
    [kind |-> "command", command |-> commandId, customCallback |-> label]

ErrorChatResponseContentImpl(error) ==
    [kind |-> "error", error |-> error]

QuestionResponseContentImpl(question, selectedOption) ==
    [kind |-> "question", question |-> question, selectedOption |-> selectedOption]

\* the code fence of CodeChatResponseContentImpl.asString: three backquotes,
\* written with quotes because a TLA+ string cannot hold a backquote
Fence == "'''"

\* get finished(): false when the field is undefined
Finished(c) == IF c.finished = Undefined THEN FALSE ELSE c.finished[1]

\* ChatResponseContent.hasMerge: the classes that define merge
hasMerge(c) ==
    c.kind \in {"text", "markdownContent", "informational", "code", "toolCall", "question"}

\* ChatResponseContent.hasDisplayString: the classes that define asDisplayString
hasDisplayString(c) ==
    c.kind \in {"text", "markdownContent", "toolCall"}

\* ChatResponseContent.hasAsString: every class defines asString
hasAsString(c) ==
    c.kind \in {"text", "markdownContent", "informational", "code", "toolCall",
                "command", "error", "question"}

\* merge of a tool call that keeps the result it has when the fragment carries none
ToolCallMergeKeepsResult(this, next) ==
    IF next.id = this.id
    THEN [ok |-> TRUE,
          elem |-> [this EXCEPT !.finished = Some(Finished(this) \/ Finished(next)),
                                !.result = IF next.result = Undefined THEN this.result
                                           ELSE next.result]]
    ELSE IF next.name # Undefined
    THEN [ok |-> FALSE, elem |-> this]
    ELSE IF next.arguments = Undefined
    THEN [ok |-> FALSE, elem |-> this]
    ELSE [ok |-> TRUE,
          elem |-> [this EXCEPT !.arguments =
                       Some(TemplateString(this.arguments) \o TemplateString(next.arguments))]]

\* ToolCallChatResponseContentImpl.merge, as [ok, element after the call]
ToolCallMerge(this, next) ==
    IF next.id = this.id
    THEN [ok |-> TRUE,
          elem |-> [this EXCEPT !.finished = Some(Finished(next)),
                                !.result = next.result]]
    ELSE IF next.name # Undefined
    THEN [ok |-> FALSE, elem |-> this]
    ELSE IF next.arguments = Undefined
    THEN [ok |-> FALSE, elem |-> this]
    ELSE [ok |-> TRUE,
          elem |-> [this EXCEPT !.arguments =
                       Some(TemplateString(this.arguments) \o TemplateString(next.arguments))]]

\* merge that puts the incoming payload in front of the accumulated one
mergePrepends(this, next) ==
    CASE this.kind \in {"text", "markdownContent", "informational"} ->
            [ok |-> TRUE, elem |-> [this EXCEPT !.content = next.content \o this.content]]
      [] this.kind = "code" ->
            [ok |-> TRUE, elem |-> [this EXCEPT !.code = next.code \o this.code]]
      [] this.kind = "toolCall" -> ToolCallMerge(this, next)
      [] this.kind = "question" -> [ok |-> FALSE, elem |-> this]

\* merge whose question case accepts the fragment
mergeQuestionAccepts(this, next) ==
    CASE this.kind \in {"text", "markdownContent", "informational"} ->
            [ok |-> TRUE, elem |-> [this EXCEPT !.content = this.content \o next.content]]
      [] this.kind = "code" ->
            [ok |-> TRUE, elem |-> [this EXCEPT !.code = this.code \o next.code]]
      [] this.kind = "toolCall" -> ToolCallMerge(this, next)
      [] this.kind = "question" -> [ok |-> TRUE, elem |-> this]

\* merge of the element's class, as [ok, element after the call];
\* called only for an element with hasMerge and a fragment of the same kind
merge(this, next) ==
    CASE this.kind = "text" ->
            [ok |-> TRUE, elem |-> [this EXCEPT !.content = this.content \o next.content]]
      [] this.kind = "markdownContent" ->
            [ok |-> TRUE, elem |-> [this EXCEPT !.content = this.content \o next.content]]
      [] this.kind = "informational" ->
            [ok |-> TRUE, elem |-> [this EXCEPT !.content = this.content \o next.content]]
      [] this.kind = "code" ->
            [ok |-> TRUE, elem |-> [this EXCEPT !.code = this.code \o next.code]]
      [] this.kind = "toolCall" -> ToolCallMerge(this, next)
      [] this.kind = "question" -> [ok |-> FALSE, elem |-> this]

\* asString of the element's class, as an option
asString(c) ==
    CASE c.kind = "text" -> Some(c.content)
      [] c.kind = "markdownContent" -> Some(c.content)
      [] c.kind = "informational" -> Undefined
      [] c.kind = "code" ->
            Some(Fence \o OrElse(c.language, "") \o "\n" \o c.code \o "\n" \o Fence)
      [] c.kind = "toolCall" -> Some("")
      [] c.kind = "command" ->
            Some(IF c.command # Undefined /\ c.command[1] # "" THEN c.command[1]
                 ELSE IF c.customCallback # Undefined /\ c.customCallback[1] # ""
                      THEN c.customCallback[1]
                      ELSE "command")
      [] c.kind = "error" -> Undefined
      [] c.kind = "question" ->
            Some("Question: " \o c.question \o "\n" \o
                 (IF c.selectedOption # Undefined
                  THEN "Answer: " \o c.selectedOption[1]
                  ELSE "No answer"))

\* asDisplayString of the element's class, as an option
asDisplayString(c) ==
    CASE c.kind = "toolCall" ->
            Some("Tool call: " \o TemplateString(c.name) \o "(" \o
                 OrElse(c.arguments, "") \o ")")
      [] OTHER -> asString(c)

\* ------------------------------------------------------- ChatResponseImpl
\* a search for the tool call that looks at the last element only
FittingToolAtTail(cont, id) ==
    IF Len(cont) > 0 /\ cont[Len(cont)].kind = "toolCall" /\ cont[Len(cont)].id = id
    THEN Len(cont)
    ELSE 0

\* index of the first tool call with the id, 0 when there is none
\* (this._content.find(c => ToolCallChatResponseContent.is(c) && c.id === id))
FittingTool(cont, id) ==
    LET hits == {i \in 1..Len(cont) : cont[i].kind = "toolCall" /\ cont[i].id = id}
    IN IF hits = {} THEN 0 ELSE CHOOSE i \in hits : \A j \in hits : i <= j

\* the place of the last element of the kind that has merge, 0 when there is none
LastOfKind(cont, kind) ==
    LET hits == {i \in 1..Len(cont) : cont[i].kind = kind /\ hasMerge(cont[i])}
    IN IF hits = {} THEN 0 ELSE CHOOSE i \in hits : \A j \in hits : j <= i

\* doAddContent that merges into the latest element of the fragment's kind, wherever
\* it is
doAddContentMergesAnywhere(cont, nextContent) ==
    IF nextContent.kind = "toolCall" /\ nextContent.id # Undefined
    THEN LET i == FittingTool(cont, nextContent.id)
         IN IF i # 0
            THEN [cont EXCEPT ![i] = merge(cont[i], nextContent).elem]
            ELSE Append(cont, nextContent)
    ELSE LET i == LastOfKind(cont, nextContent.kind)
         IN IF i # 0
            THEN LET m == merge(cont[i], nextContent)
                 IN IF m.ok
                    THEN [cont EXCEPT ![i] = m.elem]
                    ELSE Append(cont, nextContent)
            ELSE Append(cont, nextContent)

\* doAddContent that moves the tool call a fragment's id matches to the end
doAddContentMovesTool(cont, nextContent) ==
    IF nextContent.kind = "toolCall" /\ nextContent.id # Undefined
    THEN LET i == FittingTool(cont, nextContent.id)
         IN IF i # 0
            THEN Append(SubSeq(cont, 1, i - 1) \o SubSeq(cont, i + 1, Len(cont)),
                        merge(cont[i], nextContent).elem)
            ELSE Append(cont, nextContent)
    ELSE IF Len(cont) > 0 /\ cont[Len(cont)].kind = nextContent.kind
               /\ hasMerge(cont[Len(cont)])
         THEN LET m == merge(cont[Len(cont)], nextContent)
              IN IF m.ok
                 THEN [cont EXCEPT ![Len(cont)] = m.elem]
                 ELSE Append(cont, nextContent)
         ELSE Append(cont, nextContent)

\* ChatResponseImpl.doAddContent: the content sequence after the call
doAddContent(cont, nextContent) ==
    IF nextContent.kind = "toolCall" /\ nextContent.id # Undefined
    THEN LET i == FittingTool(cont, nextContent.id)
         IN IF i # 0
            THEN [cont EXCEPT ![i] = merge(cont[i], nextContent).elem]
            ELSE Append(cont, nextContent)
    ELSE IF Len(cont) > 0 /\ cont[Len(cont)].kind = nextContent.kind
               /\ hasMerge(cont[Len(cont)])
         THEN LET m == merge(cont[Len(cont)], nextContent)
              IN IF m.ok
                 THEN [cont EXCEPT ![Len(cont)] = m.elem]
                 ELSE Append(cont, nextContent)
         ELSE Append(cont, nextContent)

\* contents.forEach(c => this.doAddContent(c))
RECURSIVE doAddContents(_, _)
doAddContents(cont, contents) ==
    IF contents = <<>> THEN cont
    ELSE doAddContents(doAddContent(cont, Head(contents)), Tail(contents))

\* the string one element contributes, as an option
\* (the callback of map in responseRepresentationsToString)
RepresentationOf(c, collect) ==
    IF collect = "asDisplayString" /\ hasDisplayString(c) THEN asDisplayString(c)
    ELSE IF hasAsString(c) THEN asString(c)
    ELSE IF c.kind = "text" THEN Some(c.content)
    ELSE Undefined

\* Array.prototype.join
RECURSIVE Join(_, _)
Join(strs, sep) ==
    IF strs = <<>> THEN ""
    ELSE IF Len(strs) = 1 THEN strs[1]
    ELSE strs[1] \o sep \o Join(Tail(strs), sep)

\* ChatResponseImpl.responseRepresentationsToString
responseRepresentationsToString(cont, collect) ==
    LET mapped == [i \in 1..Len(cont) |-> RepresentationOf(cont[i], collect)]
        kept == SelectSeq(mapped, LAMBDA t : t # Undefined /\ t # Some(""))
    IN Join([i \in 1..Len(kept) |-> kept[i][1]], "\n\n")

\* ------------------------------------------- MutableChatResponseModel state
VARIABLES
    content,                          \* ChatResponseImpl._content
    responseRepresentation,           \* ChatResponseImpl._responseRepresentation
    responseRepresentationForDisplay, \* ChatResponseImpl._responseRepresentationForDisplay
    progressMessages,                 \* MutableChatResponseModel._progressMessages
    isComplete,                       \* MutableChatResponseModel._isComplete
    isWaitingForInput,                \* MutableChatResponseModel._isWaitingForInput
    isError,                          \* MutableChatResponseModel._isError
    errorObject,                      \* MutableChatResponseModel._errorObject
    isCancellationRequested,          \* _cancellationToken.token.isCancellationRequested
    responseFired,   \* fire() calls of ChatResponseImpl._onDidChangeEmitter in the last call
    modelFired,      \* fire() calls of MutableChatResponseModel._onDidChangeEmitter in the last call
    delivered,       \* fragments the producer has delivered so far
    history,         \* the fragments delivered so far, in arrival order
    notified,        \* what each change notification of the last call showed its observers
    tokenNotified,   \* what the cancellation token's listeners were shown in the last call
    lastOp,          \* the public method called last
    lastArg          \* its argument, Undefined when it takes none

\* --------------------------------- MutableChatModel and ChangeSetImpl state
VARIABLES
    requests,           \* MutableChatModel._requests
    uuidsGenerated,     \* generateUuid() calls made for requests and their responses
    changeSet,          \* MutableChatModel._changeSet: an option of a change set
    changeSetListener,  \* MutableChatModel._changeSetListener: an option of [changeSet, disposed]
    listeners,          \* per change set, the listeners the conversation has on its onDidChange
    elements,           \* per change set, ChangeSetImpl._elements
    chatFired,          \* the events MutableChatModel._onDidChangeEmitter fired in the last call
    changeSetFired,     \* fire() calls of ChangeSetImpl._onDidChangeEmitter in the last call
    returned,           \* what the last call returned, Undefined when it returns nothing
    setChangeSetLog,    \* per setChangeSet call so far, its argument and the events it fired
    handlerCalls        \* the options the handlers of question elements were called with

contentVars == <<content, responseRepresentation, responseRepresentationForDisplay>>

flagVars == <<isComplete, isWaitingForInput, isError, errorObject, isCancellationRequested>>

chatVars == <<requests, uuidsGenerated, changeSet, changeSetListener, listeners, elements,
              chatFired, changeSetFired, returned, setChangeSetLog, handlerCalls>>

\* the state of the response, without the record of the last call
responseVars == <<content, responseRepresentation, responseRepresentationForDisplay,
                  progressMessages, isComplete, isWaitingForInput, isError, errorObject,
                  isCancellationRequested, responseFired, modelFired, delivered, history,
                  notified, tokenNotified>>

vars == <<responseVars, lastOp, lastArg, chatVars>>

\* get isCanceled()
isCanceled == isCancellationRequested

\* get isError(), read as a condition: the field is undefined until error() sets it
IsError == isError = Some(TRUE)

\* complete, canceled or errored (ChatRequestModel.isInProgress, negated)
Terminal == isComplete \/ isCanceled \/ IsError

\* what a listener of the response's onDidChange can read when it is called
Observable ==
    [content |-> content,
     asString |-> responseRepresentation,
     asDisplayString |-> responseRepresentationForDisplay,
     progressMessages |-> progressMessages,
     isComplete |-> isComplete,
     isCanceled |-> isCanceled,
     isWaitingForInput |-> isWaitingForInput,
     isError |-> isError,
     errorObject |-> errorObject]

\* the causes handed to error()
Causes == {"e1", "e2"}

\* new MutableChatResponseModel(requestId, agentId)
MutableChatResponseModel ==
    /\ content = <<>>
    /\ responseRepresentation = Undefined
    /\ responseRepresentationForDisplay = Undefined
    /\ progressMessages = <<>>
    /\ isComplete = FALSE
    /\ isWaitingForInput = FALSE
    /\ isError = Undefined
    /\ errorObject = Undefined
    /\ isCancellationRequested = FALSE
    /\ responseFired = 0
    /\ modelFired = 0
    /\ delivered = 0
    /\ history = <<>>
    /\ tokenNotified = <<>>
    /\ notified = <<>>
    /\ lastOp = "new"
    /\ lastArg = Undefined

\* new ErrorChatResponseModel(requestId, error, agentId): super(...), then this.error(error)
ErrorChatResponseModel(error) ==
    /\ content = <<>>
    /\ responseRepresentation = Undefined
    /\ responseRepresentationForDisplay = Undefined
    /\ progressMessages = <<>>
    /\ isComplete = TRUE
    /\ isWaitingForInput = FALSE
    /\ isError = Some(TRUE)
    /\ errorObject = Some(error)
    /\ isCancellationRequested = FALSE
    /\ responseFired = 0
    /\ modelFired = 1
    /\ delivered = 0
    /\ history = <<>>
    /\ tokenNotified = <<>>
    /\ notified = <<Observable>>
    /\ lastOp = "newError"
    /\ lastArg = error

\* the change set objects the conversation is given
ChangeSets == {"A", "B"}

\* new MutableChatModel(location): no request, no change set, no listener
MutableChatModel ==
    /\ requests = <<>>
    /\ uuidsGenerated = 0
    /\ changeSet = Undefined
    /\ changeSetListener = Undefined
    /\ listeners = [cs \in ChangeSets |-> 0]
    /\ chatFired = <<>>
    /\ returned = Undefined
    /\ setChangeSetLog = <<>>
    /\ handlerCalls = <<>>

\* new ChangeSetImpl(title) for every change set: addElements([]) fires once, unheard
ChangeSetImpl ==
    /\ elements = [cs \in ChangeSets |-> <<>>]
    /\ changeSetFired = 1

Init ==
    /\ \/ MutableChatResponseModel
       \/ \E e \in Causes : ErrorChatResponseModel(e)
    /\ MutableChatModel
    /\ ChangeSetImpl

\* ------------------------------------------------- lifecycle (lines 1102-1135)
\* complete() that forgets to clear the waiting flag
completeKeepsWaiting ==
    /\ isComplete' = TRUE
    /\ modelFired' = 1
    /\ responseFired' = 0
    /\ lastOp' = "complete"
    /\ lastArg' = Undefined
    /\ UNCHANGED <<contentVars, progressMessages, isWaitingForInput, isError, errorObject,
                   isCancellationRequested, delivered, history>>
    /\ tokenNotified' = <<>>
    /\ notified' = [i \in 1..modelFired' |-> Observable']
    /\ UNCHANGED chatVars

complete ==
    /\ isComplete' = TRUE
    /\ isWaitingForInput' = FALSE
    /\ modelFired' = 1
    /\ responseFired' = 0
    /\ lastOp' = "complete"
    /\ lastArg' = Undefined
    /\ UNCHANGED <<contentVars, progressMessages, isError, errorObject,
                   isCancellationRequested, delivered, history>>
    /\ tokenNotified' = <<>>
    /\ notified' = [i \in 1..modelFired' |-> Observable']
    /\ UNCHANGED chatVars

\* CancellationTokenSource.cancel(): the first call raises the signal and then runs
\* the token's onCancellationRequested listeners, inside the call; what they are shown
\* is the response with the signal raised and nothing else changed yet
CancellationRequested ==
    IF isCancellationRequested THEN <<>>
    ELSE <<[Observable EXCEPT !.isCanceled = TRUE]>>

\* cancel() that only raises the cancellation signal
cancelTokenOnly ==
    /\ isCancellationRequested' = TRUE
    /\ isWaitingForInput' = FALSE
    /\ modelFired' = 1
    /\ responseFired' = 0
    /\ lastOp' = "cancel"
    /\ lastArg' = Undefined
    /\ UNCHANGED <<contentVars, progressMessages, isComplete, isError, errorObject, delivered, history>>
    /\ tokenNotified' = CancellationRequested
    /\ notified' = [i \in 1..modelFired' |-> Observable']
    /\ UNCHANGED chatVars

cancel ==
    /\ isCancellationRequested' = TRUE
    /\ isComplete' = TRUE
    /\ isWaitingForInput' = FALSE
    /\ modelFired' = 1
    /\ responseFired' = 0
    /\ lastOp' = "cancel"
    /\ lastArg' = Undefined
    /\ UNCHANGED <<contentVars, progressMessages, isError, errorObject, delivered, history>>
    /\ tokenNotified' = CancellationRequested
    /\ notified' = [i \in 1..modelFired' |-> Observable']
    /\ UNCHANGED chatVars

\* MutableChatRequestModel.cancel: this.response.cancel()
requestCancel == cancel

\* waitForInput() that ignores the call on a terminal response
waitForInputIfActive ==
    /\ isWaitingForInput' = (IF Terminal THEN isWaitingForInput ELSE TRUE)
    /\ modelFired' = (IF Terminal THEN 0 ELSE 1)
    /\ responseFired' = 0
    /\ lastOp' = "waitForInput"
    /\ lastArg' = Undefined
    /\ UNCHANGED <<contentVars, progressMessages, isComplete, isError, errorObject,
                   isCancellationRequested, delivered, history>>
    /\ tokenNotified' = <<>>
    /\ notified' = [i \in 1..modelFired' |-> Observable']
    /\ UNCHANGED chatVars

waitForInput ==
    /\ isWaitingForInput' = TRUE
    /\ modelFired' = 1
    /\ responseFired' = 0
    /\ lastOp' = "waitForInput"
    /\ lastArg' = Undefined
    /\ UNCHANGED <<contentVars, progressMessages, isComplete, isError, errorObject,
                   isCancellationRequested, delivered, history>>
    /\ tokenNotified' = <<>>
    /\ notified' = [i \in 1..modelFired' |-> Observable']
    /\ UNCHANGED chatVars

\* stopWaitingForInput() that also marks the response as running again
stopWaitingForInputReopens ==
    /\ isWaitingForInput' = FALSE
    /\ isComplete' = FALSE
    /\ modelFired' = 1
    /\ responseFired' = 0
    /\ lastOp' = "stopWaitingForInput"
    /\ lastArg' = Undefined
    /\ UNCHANGED <<contentVars, progressMessages, isError, errorObject,
                   isCancellationRequested, delivered, history>>
    /\ tokenNotified' = <<>>
    /\ notified' = [i \in 1..modelFired' |-> Observable']
    /\ UNCHANGED chatVars

stopWaitingForInput ==
    /\ isWaitingForInput' = FALSE
    /\ modelFired' = 1
    /\ responseFired' = 0
    /\ lastOp' = "stopWaitingForInput"
    /\ lastArg' = Undefined
    /\ UNCHANGED <<contentVars, progressMessages, isComplete, isError, errorObject,
                   isCancellationRequested, delivered, history>>
    /\ tokenNotified' = <<>>
    /\ notified' = [i \in 1..modelFired' |-> Observable']
    /\ UNCHANGED chatVars

\* error() that also raises the cancellation signal
errorCancels(err) ==
    /\ isComplete' = TRUE
    /\ isWaitingForInput' = FALSE
    /\ isError' = Some(TRUE)
    /\ errorObject' = Some(err)
    /\ isCancellationRequested' = TRUE
    /\ modelFired' = 1
    /\ responseFired' = 0
    /\ lastOp' = "error"
    /\ lastArg' = err
    /\ UNCHANGED <<contentVars, progressMessages, delivered, history>>
    /\ tokenNotified' = <<>>
    /\ notified' = [i \in 1..modelFired' |-> Observable']
    /\ UNCHANGED chatVars

\* error() that keeps the cause recorded first
errorKeepsFirstCause(err) ==
    /\ isComplete' = TRUE
    /\ isWaitingForInput' = FALSE
    /\ isError' = Some(TRUE)
    /\ errorObject' = (IF errorObject = Undefined THEN Some(err) ELSE errorObject)
    /\ modelFired' = 1
    /\ responseFired' = 0
    /\ lastOp' = "error"
    /\ lastArg' = err
    /\ UNCHANGED <<contentVars, progressMessages, isCancellationRequested, delivered, history>>
    /\ tokenNotified' = <<>>
    /\ notified' = [i \in 1..modelFired' |-> Observable']
    /\ UNCHANGED chatVars

\* error() that forgets to mark the response complete
errorWithoutComplete(err) ==
    /\ isWaitingForInput' = FALSE
    /\ isError' = Some(TRUE)
    /\ errorObject' = Some(err)
    /\ modelFired' = 1
    /\ responseFired' = 0
    /\ lastOp' = "error"
    /\ lastArg' = err
    /\ UNCHANGED <<contentVars, progressMessages, isComplete, isCancellationRequested,
                   delivered, history>>
    /\ tokenNotified' = <<>>
    /\ notified' = [i \in 1..modelFired' |-> Observable']
    /\ UNCHANGED chatVars

error(err) ==
    /\ isComplete' = TRUE
    /\ isWaitingForInput' = FALSE
    /\ isError' = Some(TRUE)
    /\ errorObject' = Some(err)
    /\ modelFired' = 1
    /\ responseFired' = 0
    /\ lastOp' = "error"
    /\ lastArg' = err
    /\ UNCHANGED <<contentVars, progressMessages, isCancellationRequested, delivered, history>>
    /\ tokenNotified' = <<>>
    /\ notified' = [i \in 1..modelFired' |-> Observable']
    /\ UNCHANGED chatVars

\* ------------------------------------------- content calls (lines 924-969)
\* the fragments the producer delivers
Fragments ==
    { TextChatResponseContentImpl("a"),
      ToolCallChatResponseContentImpl(Some("t1"), Some("foo"), Undefined, Undefined, Undefined),
      ToolCallChatResponseContentImpl(Some("t1"), Undefined, Some("{x}"), Undefined, Undefined) }

\* the batches handed to addContents
Batches(frags) ==
    UNION { [1..n -> frags] : n \in 0..MaxBatch }

\* the constructor's listener: response.onDidChange(() => this._onDidChangeEmitter.fire())
Refired(n) == n

\* addContent() that ignores the call on a terminal response
addContentIfActive(nextContent) ==
    /\ delivered + 1 <= MaxFragments
    /\ delivered' = delivered + 1
    /\ history' = Append(history, nextContent)
    /\ content' = (IF Terminal THEN content ELSE doAddContent(content, nextContent))
    /\ responseRepresentation' =
           (IF Terminal THEN responseRepresentation
            ELSE Some(responseRepresentationsToString(content', "asString")))
    /\ responseRepresentationForDisplay' =
           (IF Terminal THEN responseRepresentationForDisplay
            ELSE Some(responseRepresentationsToString(content', "asDisplayString")))
    /\ responseFired' = (IF Terminal THEN 0 ELSE 1)
    /\ modelFired' = (IF Terminal THEN 0 ELSE Refired(1))
    /\ lastOp' = "addContent"
    /\ lastArg' = nextContent
    /\ UNCHANGED <<progressMessages, flagVars>>
    /\ tokenNotified' = <<>>
    /\ notified' = [i \in 1..modelFired' |-> Observable']
    /\ UNCHANGED chatVars

addContent(nextContent) ==
    /\ delivered + 1 <= MaxFragments
    /\ delivered' = delivered + 1
    /\ history' = Append(history, nextContent)
    /\ content' = doAddContent(content, nextContent)
    /\ responseRepresentation' =
           Some(responseRepresentationsToString(content', "asString"))
    /\ responseRepresentationForDisplay' =
           Some(responseRepresentationsToString(content', "asDisplayString"))
    /\ responseFired' = 1
    /\ modelFired' = Refired(1)
    /\ lastOp' = "addContent"
    /\ lastArg' = nextContent
    /\ UNCHANGED <<progressMessages, flagVars>>
    /\ tokenNotified' = <<>>
    /\ notified' = [i \in 1..modelFired' |-> Observable']
    /\ UNCHANGED chatVars

\* addContents() that fires inside the loop, once per fragment
addContentsFiresPerFragment(contents) ==
    /\ delivered + Len(contents) <= MaxFragments
    /\ delivered' = delivered + Len(contents)
    /\ history' = history \o contents
    /\ content' = doAddContents(content, contents)
    /\ IF contents = <<>>
       THEN UNCHANGED <<responseRepresentation, responseRepresentationForDisplay>>
       ELSE /\ responseRepresentation' =
                   Some(responseRepresentationsToString(content', "asString"))
            /\ responseRepresentationForDisplay' =
                   Some(responseRepresentationsToString(content', "asDisplayString"))
    /\ responseFired' = Len(contents)
    /\ modelFired' = Refired(Len(contents))
    /\ lastOp' = "addContents"
    /\ lastArg' = contents
    /\ UNCHANGED <<progressMessages, flagVars>>
    /\ tokenNotified' = <<>>
    /\ notified' = [i \in 1..modelFired' |-> Observable']
    /\ UNCHANGED chatVars

\* addContents() that fires before the strings are recomputed
addContentsFiresBeforeUpdate(contents) ==
    /\ delivered + Len(contents) <= MaxFragments
    /\ delivered' = delivered + Len(contents)
    /\ history' = history \o contents
    /\ content' = doAddContents(content, contents)
    /\ IF contents = <<>>
       THEN UNCHANGED <<responseRepresentation, responseRepresentationForDisplay>>
       ELSE /\ responseRepresentation' =
                   Some(responseRepresentationsToString(content', "asString"))
            /\ responseRepresentationForDisplay' =
                   Some(responseRepresentationsToString(content', "asDisplayString"))
    /\ responseFired' = 1
    /\ modelFired' = Refired(1)
    /\ lastOp' = "addContents"
    /\ lastArg' = contents
    /\ UNCHANGED <<progressMessages, flagVars>>
    /\ tokenNotified' = <<>>
    /\ notified' = <<[Observable' EXCEPT
                         !.asString = responseRepresentation,
                         !.asDisplayString = responseRepresentationForDisplay]>>
    /\ UNCHANGED chatVars

addContents(contents) ==
    /\ delivered + Len(contents) <= MaxFragments
    /\ delivered' = delivered + Len(contents)
    /\ history' = history \o contents
    /\ content' = doAddContents(content, contents)
    /\ IF contents = <<>>
       THEN UNCHANGED <<responseRepresentation, responseRepresentationForDisplay>>
       ELSE /\ responseRepresentation' =
                   Some(responseRepresentationsToString(content', "asString"))
            /\ responseRepresentationForDisplay' =
                   Some(responseRepresentationsToString(content', "asDisplayString"))
    /\ responseFired' = 1
    /\ modelFired' = Refired(1)
    /\ lastOp' = "addContents"
    /\ lastArg' = contents
    /\ UNCHANGED <<progressMessages, flagVars>>
    /\ tokenNotified' = <<>>
    /\ notified' = [i \in 1..modelFired' |-> Observable']
    /\ UNCHANGED chatVars

\* ------------------------------------------ progress messages (lines 1047-1076)
\* generateUuid(): an id no message of the response has
generateUuid == "uuid-" \o ToString(Len(progressMessages) + 1)

\* index of the first message with the id, 0 when there is none
getProgressMessage(id) ==
    LET hits == {i \in 1..Len(progressMessages) : progressMessages[i].id = id}
    IN IF hits = {} THEN 0 ELSE CHOOSE i \in hits : \A j \in hits : i <= j

\* Object.assign(progressMessage, message): the fields the message carries overwrite
Assign(progressMessage, message) ==
    [kind |-> "progressMessage",
     id |-> OrElse(message.id, progressMessage.id),
     status |-> OrElse(message.status, progressMessage.status),
     show |-> OrElse(message.show, progressMessage.show),
     content |-> OrElse(message.content, progressMessage.content)]

\* the messages handed to addProgressMessage: content, and optionally id, status, show
AddMessages ==
    [id : {Undefined, Some("p1")}, content : {Some("c1")},
     status : {Undefined}, show : {Undefined}]

\* the messages handed to updateProgressMessage: id, and optionally status, show, content
UpdateMessages ==
    [id : {Some("p1"), Some("p2")}, content : {Undefined, Some("c2")},
     status : {Undefined}, show : {Undefined}]

\* addProgressMessage that appends a new entry whatever ids are in use
addProgressMessageAlwaysAppends(message) ==
    LET id == OrElse(message.id, generateUuid)
        existingMessage == 0
    IN /\ existingMessage # 0 \/ Len(progressMessages) < MaxProgress
       /\ IF existingMessage # 0
          THEN progressMessages' =
                   [progressMessages EXCEPT ![existingMessage] =
                        Assign(@, [message EXCEPT !.id = Some(id)])]
          ELSE progressMessages' =
                   Append(progressMessages,
                          Assign([id |-> id, status |-> "inProgress",
                                  show |-> "untilFirstContent", content |-> ""],
                                 message))
       /\ modelFired' = 1
       /\ responseFired' = 0
       /\ lastOp' = "addProgressMessage"
       /\ lastArg' = message
       /\ UNCHANGED <<contentVars, flagVars, delivered, history>>
       /\ tokenNotified' = <<>>
       /\ notified' = [i \in 1..modelFired' |-> Observable']
       /\ returned' = Some(progressMessages'[IF existingMessage # 0 THEN existingMessage
                                              ELSE Len(progressMessages')])
       /\ UNCHANGED <<requests, uuidsGenerated, changeSet, changeSetListener, listeners,
                      elements, chatFired, changeSetFired, setChangeSetLog, handlerCalls>>

addProgressMessage(message) ==
    LET id == OrElse(message.id, generateUuid)
        existingMessage == getProgressMessage(id)
    IN /\ existingMessage # 0 \/ Len(progressMessages) < MaxProgress
       /\ IF existingMessage # 0
          THEN progressMessages' =
                   [progressMessages EXCEPT ![existingMessage] =
                        Assign(@, [message EXCEPT !.id = Some(id)])]
          ELSE progressMessages' =
                   Append(progressMessages,
                          Assign([id |-> id, status |-> "inProgress",
                                  show |-> "untilFirstContent", content |-> ""],
                                 message))
       /\ modelFired' = 1
       /\ responseFired' = 0
       /\ lastOp' = "addProgressMessage"
       /\ lastArg' = message
       /\ UNCHANGED <<contentVars, flagVars, delivered, history>>
       /\ tokenNotified' = <<>>
       /\ notified' = [i \in 1..modelFired' |-> Observable']
       /\ returned' = Some(progressMessages'[IF existingMessage # 0 THEN existingMessage
                                              ELSE Len(progressMessages')])
       /\ UNCHANGED <<requests, uuidsGenerated, changeSet, changeSetListener, listeners,
                      elements, chatFired, changeSetFired, setChangeSetLog, handlerCalls>>

updateProgressMessage(message) ==
    LET progressMessage == getProgressMessage(message.id[1])
    IN /\ IF progressMessage # 0
          THEN /\ progressMessages' =
                      [progressMessages EXCEPT ![progressMessage] = Assign(@, message)]
               /\ modelFired' = 1
          ELSE /\ UNCHANGED progressMessages
               /\ modelFired' = 0
       /\ responseFired' = 0
       /\ lastOp' = "updateProgressMessage"
       /\ lastArg' = message
       /\ UNCHANGED <<contentVars, flagVars, delivered, history>>
       /\ tokenNotified' = <<>>
       /\ notified' = [i \in 1..modelFired' |-> Observable']
       /\ UNCHANGED chatVars

\* ------------------------------------------------------------ specification
Next ==
    \/ \E f \in Fragments : addContent(f)
    \/ \E fs \in Batches(Fragments) : addContents(fs)
    \/ \E m \in AddMessages : addProgressMessage(m)
    \/ \E m \in UpdateMessages : updateProgressMessage(m)
    \/ complete
    \/ cancel
    \/ requestCancel
    \/ waitForInput
    \/ stopWaitingForInput
    \/ \E e \in Causes : error(e)

Spec == Init /\ [][Next]_vars

\* ------------------------------------ specification of the progress messages
InitProgress ==
    /\ MutableChatResponseModel
    /\ MutableChatModel
    /\ ChangeSetImpl

NextProgress ==
    \/ \E m \in AddMessages : addProgressMessage(m)
    \/ \E m \in UpdateMessages : updateProgressMessage(m)
    \/ waitForInput
    \/ complete

SpecProgress == InitProgress /\ [][NextProgress]_vars

\* ------------------------------------- specification of the content merging
\* the fragments of the mergeable kinds the producer delivers
ContentFragments ==
    { TextChatResponseContentImpl("a"),
      TextChatResponseContentImpl("b"),
      TextChatResponseContentImpl("c"),
      MarkdownChatResponseContentImpl("m"),
      InformationalChatResponseContentImpl("i"),
      CodeChatResponseContentImpl("x", Some("ts")),
      CodeChatResponseContentImpl("y", Undefined) }

InitContent ==
    /\ MutableChatResponseModel
    /\ MutableChatModel
    /\ ChangeSetImpl

NextContent ==
    \/ \E f \in ContentFragments : addContent(f)
    \/ \E fs \in Batches(ContentFragments) : addContents(fs)

SpecContent == InitContent /\ [][NextContent]_vars

\* --------------------------- specification of the aggregation of all content kinds
\* the fragments the producer delivers: mergeable kinds, tool calls with and without
\* id, name, arguments and result, and the kinds that never merge
MixedFragments ==
    { TextChatResponseContentImpl("a"),
      CodeChatResponseContentImpl("x", Some("ts")),
      ToolCallChatResponseContentImpl(Some("t1"), Some("foo"), Undefined, Undefined, Undefined),
      ToolCallChatResponseContentImpl(Some("t1"), Undefined, Undefined, Some(TRUE), Some("ok")),
      ToolCallChatResponseContentImpl(Some("t2"), Some("bar"), Some("{y}"), Undefined, Undefined),
      ToolCallChatResponseContentImpl(Undefined, Undefined, Some("{x}"), Undefined, Undefined),
      ToolCallChatResponseContentImpl(Undefined, Some("baz"), Undefined, Undefined, Undefined),
      ToolCallChatResponseContentImpl(Undefined, Undefined, Undefined, Undefined, Undefined),
      QuestionResponseContentImpl("q", Undefined),
      CommandChatResponseContentImpl(Some("cmd"), Undefined),
      ErrorChatResponseContentImpl("e1") }

\* the options an external UI selects for a question: { text } or undefined
SelectedOptions == {Undefined, Some("yes")}

\* the selectedOption setter that also calls the question's handler
setSelectedOptionCallsHandler(i, option) ==
    /\ i \in 1..Len(content)
    /\ content[i].kind = "question"
    /\ content' = [content EXCEPT ![i].selectedOption = option]
    /\ responseRepresentation' = Some(responseRepresentationsToString(content', "asString"))
    /\ responseRepresentationForDisplay' =
           Some(responseRepresentationsToString(content', "asDisplayString"))
    /\ responseFired' = 1
    /\ modelFired' = Refired(1)
    /\ lastOp' = "selectedOption"
    /\ lastArg' = Some([index |-> i, option |-> option])
    /\ UNCHANGED <<progressMessages, flagVars, delivered, history>>
    /\ tokenNotified' = <<>>
    /\ notified' = [k \in 1..modelFired' |-> Observable']
    /\ handlerCalls' = Append(handlerCalls, option)
    /\ UNCHANGED <<requests, uuidsGenerated, changeSet, changeSetListener, listeners,
                   elements, chatFired, changeSetFired, returned, setChangeSetLog>>

\* the selectedOption setter that stores the option without telling the response
setSelectedOptionSilently(i, option) ==
    /\ i \in 1..Len(content)
    /\ content[i].kind = "question"
    /\ content' = [content EXCEPT ![i].selectedOption = option]
    /\ UNCHANGED <<responseRepresentation, responseRepresentationForDisplay>>
    /\ responseFired' = 0
    /\ modelFired' = Refired(0)
    /\ lastOp' = "selectedOption"
    /\ lastArg' = Some([index |-> i, option |-> option])
    /\ UNCHANGED <<progressMessages, flagVars, delivered, history>>
    /\ tokenNotified' = <<>>
    /\ notified' = [k \in 1..modelFired' |-> Observable']
    /\ UNCHANGED chatVars

\* content[i].selectedOption = option for the question element at place i, whose
\* request is the request of this response: the setter stores the option and calls
\* this.request.response.response.responseContentChanged()
setSelectedOption(i, option) ==
    /\ i \in 1..Len(content)
    /\ content[i].kind = "question"
    /\ content' = [content EXCEPT ![i].selectedOption = option]
    /\ responseRepresentation' = Some(responseRepresentationsToString(content', "asString"))
    /\ responseRepresentationForDisplay' =
           Some(responseRepresentationsToString(content', "asDisplayString"))
    /\ responseFired' = 1
    /\ modelFired' = Refired(1)
    /\ lastOp' = "selectedOption"
    /\ lastArg' = Some([index |-> i, option |-> option])
    /\ UNCHANGED <<progressMessages, flagVars, delivered, history>>
    /\ tokenNotified' = <<>>
    /\ notified' = [k \in 1..modelFired' |-> Observable']
    /\ UNCHANGED chatVars

InitMixed ==
    /\ MutableChatResponseModel
    /\ MutableChatModel
    /\ ChangeSetImpl

NextMixed ==
    \/ \E f \in MixedFragments : addContent(f)
    \/ \E fs \in Batches(MixedFragments) : addContents(fs)
    \/ \E i \in 1..MaxFragments, o \in SelectedOptions : setSelectedOption(i, o)

SpecMixed == InitMixed /\ [][NextMixed]_vars

\* ------------------------------------------ requests of a conversation (532-652)
MaxRequests == 2

\* the n-th id generateUuid() hands out
Uuid(n) == "uuid-" \o ToString(n)

\* the parsed requests handed to addRequest: the request and its parts
ParsedChatRequests ==
    { [request |-> [text |-> "q1"], parts |-> <<[kind |-> "text"]>>],
      [request |-> [text |-> "q2"],
       parts |-> <<[kind |-> "text"], [kind |-> "var", resolution |-> "r1"]>>] }

\* message.parts.filter(part => part.kind === 'var').map(part => part.resolution)
RECURSIVE Resolutions(_)
Resolutions(parts) ==
    IF parts = <<>> THEN <<>>
    ELSE IF Head(parts).kind = "var"
         THEN <<Head(parts).resolution>> \o Resolutions(Tail(parts))
         ELSE Resolutions(Tail(parts))

\* new MutableChatResponseModel(requestId, agentId), whose id is the n-th uuid
NewMutableChatResponseModel(n, requestId, agentId) ==
    [id |-> Uuid(n), requestId |-> requestId, progressMessages |-> <<>>, content |-> <<>>,
     isComplete |-> FALSE, isWaitingForInput |-> FALSE, agentId |-> agentId,
     isCancellationRequested |-> FALSE]

\* a request whose response is created for another request id
NewMutableChatRequestModelForeignResponse(n, message, agentId, context) ==
    [id |-> Uuid(n + 1), request |-> message.request,
     response |-> NewMutableChatResponseModel(n + 2, Uuid(n), agentId),
     context |-> context \o Resolutions(message.parts), agentId |-> agentId]

\* new MutableChatRequestModel(session, message, agentId, context) when n uuids were
\* handed out before: the request takes the next one, its response the one after
NewMutableChatRequestModel(n, message, agentId, context) ==
    [id |-> Uuid(n + 1), request |-> message.request,
     response |-> NewMutableChatResponseModel(n + 2, Uuid(n + 1), agentId),
     context |-> context \o Resolutions(message.parts), agentId |-> agentId]

\* addRequest that puts the new request in front of the list
addRequestInFront(parsedChatRequest, agentId, context) ==
    LET requestModel ==
            NewMutableChatRequestModel(uuidsGenerated, parsedChatRequest, agentId, context)
    IN /\ Len(requests) < MaxRequests
       /\ requests' = <<requestModel>> \o requests
       /\ uuidsGenerated' = uuidsGenerated + 2
       /\ chatFired' = <<[kind |-> "addRequest", request |-> requestModel,
                          requests |-> requests']>>
       /\ returned' = Some(requestModel)
       /\ lastOp' = "addRequest"
       /\ lastArg' = Some(parsedChatRequest)
       /\ UNCHANGED <<changeSet, changeSetListener, listeners, elements, changeSetFired,
                      setChangeSetLog, handlerCalls>>
       /\ UNCHANGED responseVars

\* MutableChatModel.addRequest; the event records the request list its listeners read
addRequest(parsedChatRequest, agentId, context) ==
    LET requestModel ==
            NewMutableChatRequestModel(uuidsGenerated, parsedChatRequest, agentId, context)
    IN /\ Len(requests) < MaxRequests
       /\ requests' = Append(requests, requestModel)
       /\ uuidsGenerated' = uuidsGenerated + 2
       /\ chatFired' = <<[kind |-> "addRequest", request |-> requestModel,
                          requests |-> requests']>>
       /\ returned' = Some(requestModel)
       /\ lastOp' = "addRequest"
       /\ lastArg' = Some(parsedChatRequest)
       /\ UNCHANGED <<changeSet, changeSetListener, listeners, elements, changeSetFired,
                      setChangeSetLog, handlerCalls>>
       /\ UNCHANGED responseVars

\* a call on the response of the i-th request leaves the conversation's emitter alone
ResponseCall(i, op, response) ==
    /\ i \in 1..Len(requests)
    /\ requests' = [requests EXCEPT ![i].response = response]
    /\ chatFired' = <<>>
    /\ returned' = Undefined
    /\ lastOp' = op
    /\ lastArg' = Some(i)
    /\ UNCHANGED <<uuidsGenerated, changeSet, changeSetListener, listeners, elements,
                   changeSetFired, setChangeSetLog, handlerCalls>>
    /\ UNCHANGED responseVars

\* requests[i].cancel(): this.response.cancel()
cancelRequest(i) ==
    /\ i \in 1..Len(requests)
    /\ ResponseCall(i, "request.cancel",
                    [requests[i].response EXCEPT !.isCancellationRequested = TRUE,
                                                 !.isComplete = TRUE,
                                                 !.isWaitingForInput = FALSE])

\* requests[i].response.complete()
completeRequest(i) ==
    /\ i \in 1..Len(requests)
    /\ ResponseCall(i, "response.complete",
                    [requests[i].response EXCEPT !.isComplete = TRUE,
                                                 !.isWaitingForInput = FALSE])

\* requests[i].response.waitForInput()
waitForInputRequest(i) ==
    /\ i \in 1..Len(requests)
    /\ ResponseCall(i, "response.waitForInput",
                    [requests[i].response EXCEPT !.isWaitingForInput = TRUE])

AgentIds == {Undefined, Some("agent")}
Contexts == {<<>>, <<"ctx">>}

InitRequests ==
    /\ MutableChatResponseModel
    /\ MutableChatModel
    /\ ChangeSetImpl

NextRequests ==
    \/ \E p \in ParsedChatRequests, a \in AgentIds, c \in Contexts : addRequest(p, a, c)
    \/ \E i \in 1..MaxRequests : cancelRequest(i)
    \/ \E i \in 1..MaxRequests : completeRequest(i)
    \/ \E i \in 1..MaxRequests : waitForInputRequest(i)

SpecRequests == InitRequests /\ [][NextRequests]_vars

\* ------------------------------------------------ change sets (lines 500-594)
MaxSetCalls == 3
MaxElements == 2

\* a file URI and URI.toString()
Uri(path) == [scheme |-> "file", path |-> path]
UriToString(uri) == uri.scheme \o "://" \o uri.path

\* the change-set elements callers hand in: a uri and the optional state
Elements == [uri : {Uri("/f1"), Uri("/f2")}, state : {"pending", "applied", "discarded"}]

\* the batches handed to addElements, the empty one included
ElementBatches == UNION {[1..n -> Elements] : n \in 0..MaxElements}

\* what the listeners the conversation has on change set cs fire when the change
\* set notifies `fires` times: each listener fires 'updateChangeSet' with this._changeSet
UpdateEvents(cs, fires) ==
    [i \in 1..(listeners[cs] * fires) |-> [kind |-> "updateChangeSet", changeSet |-> changeSet]]

\* this._changeSetListener?.dispose(): the listener registered last stops listening
Dispose ==
    IF changeSetListener = Undefined \/ changeSetListener[1].disposed
    THEN listeners
    ELSE [listeners EXCEPT ![changeSetListener[1].changeSet] = @ - 1]

\* setChangeSet that announces the deletion of the change set it replaces
setChangeSetDeletesFirst(cs) ==
    LET fired == IF cs = Undefined
                 THEN <<[kind |-> "deleteChangeSet"]>>
                 ELSE IF changeSet = Undefined
                      THEN <<[kind |-> "setChangeSet", changeSet |-> cs]>>
                      ELSE <<[kind |-> "deleteChangeSet"],
                             [kind |-> "setChangeSet", changeSet |-> cs]>>
    IN /\ Len(setChangeSetLog) < MaxSetCalls
       /\ changeSet' = cs
       /\ IF cs = Undefined
          THEN /\ listeners' = Dispose
               /\ changeSetListener' =
                      IF changeSetListener = Undefined THEN Undefined
                      ELSE Some([changeSetListener[1] EXCEPT !.disposed = TRUE])
          ELSE /\ listeners' = [listeners EXCEPT ![cs[1]] = @ + 1]
               /\ changeSetListener' = Some([changeSet |-> cs[1], disposed |-> FALSE])
       /\ chatFired' = fired
       /\ setChangeSetLog' = Append(setChangeSetLog, [changeSet |-> cs, fired |-> fired])
       /\ changeSetFired' = 0
       /\ returned' = Undefined
       /\ lastOp' = "setChangeSet"
       /\ lastArg' = cs
       /\ UNCHANGED <<requests, uuidsGenerated, elements, handlerCalls>>
       /\ UNCHANGED responseVars

\* MutableChatModel.setChangeSet(changeSet), changeSet an option of a change set
setChangeSet(cs) ==
    LET fired == IF cs = Undefined
                 THEN <<[kind |-> "deleteChangeSet"]>>
                 ELSE <<[kind |-> "setChangeSet", changeSet |-> cs]>>
    IN /\ Len(setChangeSetLog) < MaxSetCalls
       /\ changeSet' = cs
       /\ IF cs = Undefined
          THEN /\ listeners' = Dispose
               /\ changeSetListener' =
                      IF changeSetListener = Undefined THEN Undefined
                      ELSE Some([changeSetListener[1] EXCEPT !.disposed = TRUE])
          ELSE /\ listeners' = [listeners EXCEPT ![cs[1]] = @ + 1]
               /\ changeSetListener' = Some([changeSet |-> cs[1], disposed |-> FALSE])
       /\ chatFired' = fired
       /\ setChangeSetLog' = Append(setChangeSetLog, [changeSet |-> cs, fired |-> fired])
       /\ changeSetFired' = 0
       /\ returned' = Undefined
       /\ lastOp' = "setChangeSet"
       /\ lastArg' = cs
       /\ UNCHANGED <<requests, uuidsGenerated, elements, handlerCalls>>
       /\ UNCHANGED responseVars

\* removeChangeSet that fires after the field is cleared, carrying the field
removeChangeSetCarriesField ==
    /\ changeSet' = Undefined
    /\ chatFired' = IF changeSet = Undefined THEN <<>>
                    ELSE <<[kind |-> "removeChangeSet", changeSet |-> changeSet']>>
    /\ changeSetFired' = 0
    /\ returned' = Undefined
    /\ lastOp' = "removeChangeSet"
    /\ lastArg' = Undefined
    /\ UNCHANGED <<requests, uuidsGenerated, changeSetListener, listeners, elements,
                   setChangeSetLog, handlerCalls>>
    /\ UNCHANGED responseVars

\* MutableChatModel.removeChangeSet()
removeChangeSet ==
    /\ changeSet' = Undefined
    /\ chatFired' = IF changeSet = Undefined THEN <<>>
                    ELSE <<[kind |-> "removeChangeSet", changeSet |-> changeSet]>>
    /\ changeSetFired' = 0
    /\ returned' = Undefined
    /\ lastOp' = "removeChangeSet"
    /\ lastArg' = Undefined
    /\ UNCHANGED <<requests, uuidsGenerated, changeSetListener, listeners, elements,
                   setChangeSetLog, handlerCalls>>
    /\ UNCHANGED responseVars

\* a call on change set cs that leaves newElements, calls notifyChange() `fires` times
\* and returns ret; the conversation's listeners on cs run inside every notifyChange()
ChangeSetCall(cs, op, arg, newElements, fires, ret) ==
    /\ elements' = [elements EXCEPT ![cs] = newElements]
    /\ changeSetFired' = fires
    /\ chatFired' = UpdateEvents(cs, fires)
    /\ returned' = ret
    /\ lastOp' = op
    /\ lastArg' = Some([changeSet |-> cs, arg |-> arg])
    /\ UNCHANGED <<requests, uuidsGenerated, changeSet, changeSetListener, listeners,
                   setChangeSetLog, handlerCalls>>
    /\ UNCHANGED responseVars

\* ChangeSetImpl.addElements(elements)
addElements(cs, els) ==
    /\ Len(elements[cs]) + Len(els) <= MaxElements
    /\ ChangeSetCall(cs, "addElements", els, elements[cs] \o els, 1, Undefined)

\* ChangeSetImpl.addElement(element): this.addElements([element])
addElement(cs, element) ==
    /\ Len(elements[cs]) < MaxElements
    /\ ChangeSetCall(cs, "addElement", element, Append(elements[cs], element), 1, Undefined)

\* findIndex that looks for the very element instead of its uri
findIndexOfElement(els, element) ==
    LET hits == {i \in 1..Len(els) : els[i] = element}
    IN IF hits = {} THEN -1 ELSE (CHOOSE i \in hits : \A j \in hits : i <= j) - 1

\* this._elements.findIndex(e => e.uri.toString() === element.uri.toString()):
\* the 0-based index of the first element with the uri, -1 when there is none
findIndex(els, element) ==
    LET hits == {i \in 1..Len(els) : UriToString(els[i].uri) = UriToString(element.uri)}
    IN IF hits = {} THEN -1 ELSE (CHOOSE i \in hits : \A j \in hits : i <= j) - 1

\* the elements without the one at 0-based place index
Without(els, index) == SubSeq(els, 1, index) \o SubSeq(els, index + 2, Len(els))

\* replaceElement that drops the matching element and puts the new one at the end
replaceElementAtEnd(cs, element) ==
    LET index == findIndex(elements[cs], element)
    IN IF index < 0
       THEN ChangeSetCall(cs, "replaceElement", element, elements[cs], 0, Some(FALSE))
       ELSE ChangeSetCall(cs, "replaceElement", element,
                          Append(Without(elements[cs], index), element), 1, Some(TRUE))

\* ChangeSetImpl.replaceElement(element)
replaceElement(cs, element) ==
    LET index == findIndex(elements[cs], element)
    IN IF index < 0
       THEN ChangeSetCall(cs, "replaceElement", element, elements[cs], 0, Some(FALSE))
       ELSE ChangeSetCall(cs, "replaceElement", element,
                          [elements[cs] EXCEPT ![index + 1] = element], 1, Some(TRUE))

\* addOrReplaceElement whose failed replaceElement notifies too
addOrReplaceElementNotifiesTwice(cs, element) ==
    LET index == findIndex(elements[cs], element)
    IN IF index < 0
       THEN /\ Len(elements[cs]) < MaxElements
            /\ ChangeSetCall(cs, "addOrReplaceElement", element,
                             Append(elements[cs], element), 2, Undefined)
       ELSE ChangeSetCall(cs, "addOrReplaceElement", element,
                          [elements[cs] EXCEPT ![index + 1] = element], 1, Undefined)

\* ChangeSetImpl.addOrReplaceElement(element): replaceElement, and addElement when
\* that returned false
addOrReplaceElement(cs, element) ==
    LET index == findIndex(elements[cs], element)
    IN IF index < 0
       THEN /\ Len(elements[cs]) < MaxElements
            /\ ChangeSetCall(cs, "addOrReplaceElement", element,
                             Append(elements[cs], element), 1, Undefined)
       ELSE ChangeSetCall(cs, "addOrReplaceElement", element,
                          [elements[cs] EXCEPT ![index + 1] = element], 1, Undefined)

\* Array.prototype.splice(index, 1): a negative index counts from the end, an index
\* past the end removes nothing
Splice(els, index) ==
    LET start == IF index < 0
                 THEN (IF Len(els) + index < 0 THEN 0 ELSE Len(els) + index)
                 ELSE (IF index > Len(els) THEN Len(els) ELSE index)
    IN IF start < Len(els) THEN Without(els, start) ELSE els

\* ChangeSetImpl.removeElement(index)
removeElement(cs, index) ==
    /\ index \in Int
    /\ ChangeSetCall(cs, "removeElement", index, Splice(elements[cs], index), 1, Undefined)

\* the indices handed to removeElement
Indices == -1..MaxElements

\* a conversation, its change sets set, replaced, deleted and removed while they change
InitChangeSets ==
    /\ MutableChatResponseModel
    /\ MutableChatModel
    /\ ChangeSetImpl

NextChangeSets ==
    \/ \E cs \in ChangeSets : setChangeSet(Some(cs))
    \/ setChangeSet(Undefined)
    \/ removeChangeSet
    \/ \E cs \in ChangeSets : addElement(cs, [uri |-> Uri("/f1"), state |-> "pending"])
    \/ \E cs \in ChangeSets : removeElement(cs, 0)

SpecChangeSets == InitChangeSets /\ [][NextChangeSets]_vars

\* one change set under every mutation method
InitElements ==
    /\ MutableChatResponseModel
    /\ MutableChatModel
    /\ ChangeSetImpl

NextElements ==
    \/ \E e \in Elements : addElement("A", e)
    \/ \E es \in ElementBatches : addElements("A", es)
    \/ \E e \in Elements : replaceElement("A", e)
    \/ \E e \in Elements : addOrReplaceElement("A", e)
    \/ \E i \in Indices : removeElement("A", i)

SpecElements == InitElements /\ [][NextElements]_vars

\* one change set, empty at first, under the replacing methods only
InitReplace ==
    /\ MutableChatResponseModel
    /\ MutableChatModel
    /\ ChangeSetImpl

NextReplace ==
    \/ \E e \in Elements : addOrReplaceElement("A", e)
    \/ \E e \in Elements : replaceElement("A", e)
    \/ \E i \in Indices : removeElement("A", i)

SpecReplace == InitReplace /\ [][NextReplace]_vars

\* ------------------------------------------------------------------ claims
ContentCalls == {"addContent", "addContents"}

ProgressCalls == {"addProgressMessage", "updateProgressMessage"}

LifecycleCalls == {"complete", "cancel", "error", "waitForInput", "stopWaitingForInput"}

\* C1 as stated: once the response is terminal, a later addContent, addContents,
\* addProgressMessage or updateProgressMessage leaves the content sequence, both
\* string representations and the progress messages exactly as they were.
C1_FrozenAfterTerminal ==
    [][(Terminal /\ lastOp' \in ContentCalls \cup ProgressCalls)
         => UNCHANGED <<content, responseRepresentation,
                        responseRepresentationForDisplay, progressMessages>>]_vars

\* C1 amended: a terminal response still accepts these calls.  addContent and
\* addContents apply the merge protocol to the content as on an active response and
\* recompute both representations, the progress calls still add or patch messages
\* and never drop one; none of them changes isComplete, isCanceled, isError,
\* isWaitingForInput or errorObject.
C1_TerminalStillAcceptsContent ==
    [][(Terminal /\ lastOp' \in ContentCalls \cup ProgressCalls)
         => /\ UNCHANGED flagVars
            /\ lastOp' = "addContent" =>
                 /\ content' = doAddContent(content, lastArg')
                 /\ responseRepresentation' =
                        Some(responseRepresentationsToString(content', "asString"))
                 /\ responseRepresentationForDisplay' =
                        Some(responseRepresentationsToString(content', "asDisplayString"))
            /\ lastOp' = "addContents" => content' = doAddContents(content, lastArg')
            /\ lastOp' \in ProgressCalls =>
                 /\ UNCHANGED contentVars
                 /\ Len(progressMessages') >= Len(progressMessages)
                 /\ \A i \in 1..Len(progressMessages) :
                        progressMessages'[i].id = progressMessages[i].id]_vars

\* C1 witness: the only fragment of the response was added after complete().
C1_Witness ==
    /\ isComplete
    /\ lastOp = "addContent"
    /\ delivered = 1
    /\ Len(content) = 1
    /\ responseRepresentation = Some("a")

\* C2 as stated: once the response is terminal, no later complete(), cancel(),
\* error(), waitForInput() or stopWaitingForInput() changes isComplete, isCanceled,
\* isError, isWaitingForInput or errorObject.
C2_FlagsFrozenAfterTerminal ==
    [][(Terminal /\ lastOp' \in LifecycleCalls) => UNCHANGED flagVars]_vars

\* C2 amended: on a terminal response these calls are still applied.  None of them
\* changes isComplete, and each changes only its own flags: cancel() sets isCanceled,
\* error(e) sets isError and replaces errorObject by e, waitForInput() sets
\* isWaitingForInput, and complete(), cancel(), error() and stopWaitingForInput()
\* clear isWaitingForInput.
C2_TerminalCallsStillApplied ==
    [][(Terminal /\ lastOp' \in LifecycleCalls)
         => /\ isComplete' = isComplete
            /\ lastOp' # "cancel" => isCanceled' = isCanceled
            /\ lastOp' # "error" => (isError' = isError /\ errorObject' = errorObject)
            /\ lastOp' = "cancel" => isCanceled'
            /\ lastOp' = "error" => (IsError' /\ errorObject' = Some(lastArg'))
            /\ isWaitingForInput' = (lastOp' = "waitForInput")]_vars

\* C2 witness: waitForInput() was called on a complete response and took effect.
C2_Witness ==
    /\ isComplete
    /\ lastOp = "waitForInput"
    /\ isWaitingForInput

\* C3: once isComplete is true it stays true in every later state, and the same
\* holds for isCanceled and for isError.
C3_TerminalFlagsIrrevocable ==
    [][/\ isComplete => isComplete'
       /\ isCanceled => isCanceled'
       /\ IsError => IsError']_vars

\* C3 witness: all three flags are set and a further call has run since.
C3_Witness ==
    /\ isComplete /\ isCanceled /\ IsError
    /\ lastOp = "stopWaitingForInput"

\* C4: when cancel() returns, isCanceled and isComplete are true, isWaitingForInput
\* is false, and the call fired exactly one change notification of the response.
C4_CancelSetsCanceledAndComplete ==
    lastOp = "cancel" =>
        /\ isCanceled
        /\ isComplete
        /\ ~isWaitingForInput
        /\ modelFired = 1

\* C4 witness: cancel() has just returned on a response that has not errored.
C4_Witness ==
    /\ lastOp = "cancel"
    /\ isCanceled /\ isComplete /\ ~IsError
    /\ modelFired = 1

\* C5 as stated: in no reachable state is the response both canceled and errored.
C5_NeverCanceledAndErrored == ~(isCanceled /\ IsError)

\* C5 amended: a response can be both canceled and errored, because cancel() and
\* error() are each accepted after the other; every call records only its own
\* outcome: only cancel() changes isCanceled and only error() changes isError and
\* errorObject, so the response is both only after both have been called.
C5_EachCallRecordsItsOwnOutcome ==
    [][/\ lastOp' # "cancel" => isCanceled' = isCanceled
       /\ lastOp' # "error" => (isError' = isError /\ errorObject' = errorObject)]_vars

\* C5 witness: error() has just run on a canceled response.
C5_Witness ==
    /\ isCanceled /\ IsError
    /\ lastOp = "error"

\* C6 as stated: complete() on a response that is already complete, canceled or
\* errored leaves isComplete, isCanceled, isError, isWaitingForInput and errorObject
\* exactly as they were.
C6_CompleteOnTerminalChangesNothing ==
    [][(Terminal /\ lastOp' = "complete") => UNCHANGED flagVars]_vars

\* C6 amended: complete() on a terminal response leaves isComplete, isCanceled,
\* isError and errorObject exactly as they were and leaves isWaitingForInput false;
\* it clears isWaitingForInput when waitForInput() had set it on the terminal response.
C6_CompleteOnTerminalKeepsOutcome ==
    [][(Terminal /\ lastOp' = "complete")
         => /\ UNCHANGED <<isComplete, isError, errorObject, isCancellationRequested>>
            /\ ~isWaitingForInput']_vars

\* C6 witness: complete() has just run on a response that was canceled before.
C6_Witness ==
    /\ lastOp = "complete"
    /\ isCanceled /\ isComplete /\ ~isWaitingForInput

\* C7: when error(cause) returns (also as the last step of constructing an
\* ErrorChatResponseModel), isError and isComplete are true, isWaitingForInput is
\* false, errorObject is the cause, and the call fired exactly one change notification.
C7_ErrorFromAnyState ==
    lastOp \in {"error", "newError"} =>
        /\ IsError
        /\ isComplete
        /\ ~isWaitingForInput
        /\ errorObject = Some(lastArg)
        /\ modelFired = 1

\* C7 witness: error("e2") has just run on a response that was already canceled
\* and had content.
C7_Witness ==
    /\ lastOp = "error" /\ lastArg = "e2"
    /\ errorObject = Some("e2")
    /\ isCanceled /\ content # <<>>

\* C8: after every call, isCanceled implies isComplete and isError implies isComplete.
C8_CanceledOrErrorImpliesComplete ==
    /\ isCanceled => isComplete
    /\ IsError => isComplete

\* C8 witness: a canceled or errored response on which waitForInput() was called later.
C8_Witness ==
    /\ isCanceled \/ IsError
    /\ isComplete
    /\ isWaitingForInput

\* C9: each addContent and each addContents call fires exactly one change
\* notification of the content, whatever the batch, and it is re-fired exactly once
\* as a change notification of the response model.
C9_OneNotificationPerContentCall ==
    lastOp \in ContentCalls => (responseFired = 1 /\ modelFired = 1)

\* C9 witness: a batch of two fragments, one appended and one merged, has just been added.
C9_Witness ==
    /\ lastOp = "addContents"
    /\ Len(lastArg) = 2
    /\ Len(content) = 1
    /\ responseFired = 1 /\ modelFired = 1

\* the tool-call elements of the content with the id
ToolCallsWithId(cont, id) ==
    {i \in 1..Len(cont) : cont[i].kind = "toolCall" /\ cont[i].id = id}

\* C10: when the content holds a tool call with id X, a name and no arguments, and
\* a fragment with id X, no name and arguments S is added, the content holds a
\* single tool-call element for X whose arguments equal S.
C10_ToolCallArgumentsAccumulate ==
    [][(/\ lastOp' = "addContent"
        /\ lastArg'.kind = "toolCall"
        /\ lastArg'.id # Undefined /\ lastArg'.name = Undefined
        /\ lastArg'.arguments # Undefined
        /\ \E i \in ToolCallsWithId(content, lastArg'.id) :
               content[i].name # Undefined /\ content[i].arguments = Undefined)
         => /\ Cardinality(ToolCallsWithId(content', lastArg'.id)) = 1
            /\ \A i \in ToolCallsWithId(content', lastArg'.id) :
                   content'[i].arguments = lastArg'.arguments]_vars

\* the kinds whose merge always accepts
MergeableKinds == {"text", "markdownContent", "informational", "code"}

\* the payload of a fragment or element of a mergeable kind
Payload(c) == IF c.kind = "code" THEN c.code ELSE c.content

\* the places of a fragment sequence where a run of one kind starts
RunStarts(h) == {i \in 1..Len(h) : i = 1 \/ h[i].kind # h[i - 1].kind}

\* the place where the k-th run starts
RunStart(h, k) ==
    CHOOSE i \in RunStarts(h) : Cardinality({j \in RunStarts(h) : j <= i}) = k

\* the place where the k-th run ends
RunEnd(h, k) ==
    IF k = Cardinality(RunStarts(h)) THEN Len(h) ELSE RunStart(h, k + 1) - 1

\* the payloads of h[i..j], concatenated in arrival order
RECURSIVE ConcatPayloads(_, _, _)
ConcatPayloads(h, i, j) ==
    IF i > j THEN "" ELSE Payload(h[i]) \o ConcatPayloads(h, i + 1, j)

\* C11: when only fragments of mergeable kinds (text, markdown, code, informational)
\* were delivered, the content holds one element per run of consecutive fragments of
\* one kind, in order, whose payload is the concatenation of the run's payloads in
\* arrival order; text a, b, c give one element and asString() "abc"; text a, text b
\* and a code fragment give two elements and asString() = merged text, blank line,
\* fenced code block.
C11_RunsCollapse ==
    (\A i \in 1..Len(history) : history[i].kind \in MergeableKinds) =>
        /\ Len(content) = Cardinality(RunStarts(history))
        /\ \A k \in 1..Len(content) :
              /\ content[k].kind = history[RunStart(history, k)].kind
              /\ Payload(content[k]) =
                    ConcatPayloads(history, RunStart(history, k), RunEnd(history, k))
        /\ history = <<TextChatResponseContentImpl("a"), TextChatResponseContentImpl("b"),
                       TextChatResponseContentImpl("c")>>
             => /\ content = <<TextChatResponseContentImpl("abc")>>
                /\ responseRepresentation = Some("abc")
        /\ history = <<TextChatResponseContentImpl("a"), TextChatResponseContentImpl("b"),
                       CodeChatResponseContentImpl("x", Some("ts"))>>
             => /\ Len(content) = 2
                /\ responseRepresentation =
                       Some("ab" \o "\n\n" \o Fence \o "ts\nx\n" \o Fence)

\* C11 witness: text a, text b and a code fragment were delivered and collapsed
\* into two elements.
C11_Witness ==
    /\ history = <<TextChatResponseContentImpl("a"), TextChatResponseContentImpl("b"),
                   CodeChatResponseContentImpl("x", Some("ts"))>>
    /\ Len(content) = 2
    /\ content[1] = TextChatResponseContentImpl("ab")

\* C12: addRequest appends the new request at the end of the request list and leaves
\* the earlier requests, their order and identity as they were, fires exactly one
\* 'addRequest' event that carries the request and is delivered with the request in
\* the list, and returns the request; no step shortens or reorders the list.
C12_AddRequestAppends ==
    [][/\ Len(requests') >= Len(requests)
       /\ \A i \in 1..Len(requests) : requests'[i].id = requests[i].id
       /\ lastOp' = "addRequest" =>
            /\ Len(requests') = Len(requests) + 1
            /\ SubSeq(requests', 1, Len(requests)) = requests
            /\ Len(chatFired') = 1
            /\ chatFired'[1].kind = "addRequest"
            /\ chatFired'[1].request = requests'[Len(requests')]
            /\ chatFired'[1].requests = requests'
            /\ returned' = Some(requests'[Len(requests')])]_vars

\* C12 witness: a second request was added behind a first one.
C12_Witness ==
    /\ lastOp = "addRequest"
    /\ Len(requests) = 2
    /\ requests[1].id # requests[2].id
    /\ returned = Some(requests[2])

\* C13 (state part): request ids are pairwise distinct and the response of every
\* request carries the id of its request.
C13_ResponseOwned ==
    /\ \A i, j \in 1..Len(requests) : i # j => requests[i].id # requests[j].id
    /\ \A i \in 1..Len(requests) : requests[i].response.requestId = requests[i].id

\* C13: request ids are pairwise distinct; the response of a request carries the id of
\* its request, is created with the request not complete, not canceled and not waiting
\* for input, and no later step replaces it by another response.
C13_OneResponsePerRequest ==
    [][/\ C13_ResponseOwned'
       /\ \A i \in 1..Len(requests) :
             /\ requests'[i].response.id = requests[i].response.id
             /\ requests'[i].response.requestId = requests[i].response.requestId
       /\ lastOp' = "addRequest" =>
            LET response == requests'[Len(requests')].response
            IN /\ ~response.isComplete
               /\ ~response.isCancellationRequested
               /\ ~response.isWaitingForInput]_vars

\* C13 witness: two requests exist, the first one's response was canceled after the
\* second was added, and it is still the response created with the first request.
C13_Witness ==
    /\ Len(requests) = 2
    /\ lastOp = "request.cancel"
    /\ requests[1].response.isCancellationRequested
    /\ requests[1].response.requestId = requests[1].id
    /\ requests[2].response.requestId = requests[2].id

\* C14: every setChangeSet call with a change set fires exactly one event, a
\* 'setChangeSet' carrying that change set, and no 'deleteChangeSet'; every
\* setChangeSet(undefined) fires exactly one 'deleteChangeSet' and no 'setChangeSet' and
\* leaves the conversation without a change set. So setChangeSet(A), setChangeSet(B),
\* setChangeSet(undefined) fire setChangeSet(A), setChangeSet(B), deleteChangeSet.
C14_SetChangeSetEvents ==
    /\ \A i \in 1..Len(setChangeSetLog) :
          setChangeSetLog[i].fired =
              IF setChangeSetLog[i].changeSet = Undefined
              THEN <<[kind |-> "deleteChangeSet"]>>
              ELSE <<[kind |-> "setChangeSet", changeSet |-> setChangeSetLog[i].changeSet]>>
    /\ (lastOp = "setChangeSet" /\ lastArg = Undefined) => changeSet = Undefined
    /\ (lastOp = "setChangeSet" /\ lastArg # Undefined) => changeSet = lastArg

\* C14 witness: setChangeSet(A), setChangeSet(B), setChangeSet(undefined) were called
\* in this order and the conversation has no change set.
C14_Witness ==
    /\ Len(setChangeSetLog) = 3
    /\ setChangeSetLog[1].changeSet = Some("A")
    /\ setChangeSetLog[2].changeSet = Some("B")
    /\ setChangeSetLog[3].changeSet = Undefined
    /\ lastOp = "setChangeSet"
    /\ changeSet = Undefined

\* the methods of a change set that mutate it
ElementCalls ==
    {"addElement", "addElements", "replaceElement", "addOrReplaceElement", "removeElement"}

\* C15: while cs is the active change set, a change notification of cs is re-fired as
\* exactly one 'updateChangeSet' event carrying cs, also when cs was set more than once.
C15_OneUpdatePerNotification ==
    \A cs \in ChangeSets :
        (/\ lastOp \in ElementCalls
         /\ changeSetFired = 1
         /\ lastArg[1].changeSet = cs
         /\ changeSet = Some(cs))
        => chatFired = <<[kind |-> "updateChangeSet", changeSet |-> Some(cs)]>>

\* C16: removeChangeSet() with an active change set clears it and fires exactly one
\* 'removeChangeSet' event carrying the instance that was active; with no active
\* change set it fires nothing and changes nothing.
C16_RemoveChangeSet ==
    [][lastOp' = "removeChangeSet" =>
          /\ changeSet' = Undefined
          /\ UNCHANGED <<requests, elements, listeners, changeSetListener>>
          /\ chatFired' = IF changeSet = Undefined THEN <<>>
                          ELSE <<[kind |-> "removeChangeSet", changeSet |-> changeSet]>>]_vars

\* C16 witness: removeChangeSet() removed the active change set A.
C16_Witness ==
    /\ lastOp = "removeChangeSet"
    /\ chatFired = <<[kind |-> "removeChangeSet", changeSet |-> Some("A")]>>
    /\ changeSet = Undefined

\* the places of els whose element has the uri of element
Matches(els, element) ==
    {i \in 1..Len(els) : UriToString(els[i].uri) = UriToString(element.uri)}

\* C17: replaceElement(e) with an element of the same resource identifier in the change
\* set puts e at the place of such an element, keeps the length and every other element
\* and returns true; with no such element it returns false and leaves the elements as
\* they are, and addOrReplaceElement(e) in that case appends e at the end.
C17_ReplaceInPlace ==
    [][LET e == lastArg'[1].arg
           old == elements["A"]
           new == elements'["A"]
       IN /\ lastOp' = "replaceElement" =>
                IF Matches(old, e) # {}
                THEN /\ returned' = Some(TRUE)
                     /\ Len(new) = Len(old)
                     /\ \E i \in Matches(old, e) :
                           /\ new[i] = e
                           /\ \A j \in 1..Len(old) : j # i => new[j] = old[j]
                ELSE /\ returned' = Some(FALSE)
                     /\ new = old
          /\ (lastOp' = "addOrReplaceElement" /\ Matches(old, e) = {}) =>
                new = Append(old, e)]_vars

\* C17 witness: replaceElement replaced the first of two elements by an element with
\* the same uri and another state.
C17_Witness ==
    /\ lastOp = "replaceElement"
    /\ returned = Some(TRUE)
    /\ Len(elements["A"]) = 2
    /\ elements["A"][1] = lastArg[1].arg
    /\ elements["A"][1].state = "applied"
    /\ elements["A"][2].uri # elements["A"][1].uri

\* C18 as stated: every call of a mutation method of a change set fires exactly one
\* change notification.
C18_OneNotificationPerCall ==
    lastOp \in ElementCalls => changeSetFired = 1

\* C18: every call of addElement, addElements, addOrReplaceElement and removeElement,
\* and every replaceElement call that finds an element to replace, fires exactly one
\* change notification however many elements it touches; a replaceElement call that
\* finds no element with the uri returns false and fires none.
C18_OneNotificationPerMutation ==
    lastOp \in ElementCalls =>
        changeSetFired = IF lastOp = "replaceElement" /\ returned = Some(FALSE) THEN 0 ELSE 1

\* C18 witness: addElements added two elements at once and fired once.
C18_Witness ==
    /\ lastOp = "addElements"
    /\ Len(lastArg[1].arg) = 2
    /\ Len(elements["A"]) = 2
    /\ changeSetFired = 1

\* C19: in a change set that starts empty and is changed only by addOrReplaceElement,
\* replaceElement and removeElement, the uris of the elements are pairwise distinct.
C19_UrisDistinct ==
    \A i, j \in 1..Len(elements["A"]) :
        i # j => UriToString(elements["A"][i].uri) # UriToString(elements["A"][j].uri)

\* C19 witness: the change set holds two elements and the last call replaced one of
\* them in place.
C19_Witness ==
    /\ Len(elements["A"]) = 2
    /\ lastOp = "addOrReplaceElement"
    /\ elements["A"][1] = lastArg[1].arg

IsToolCallWithId(f) == f.kind = "toolCall" /\ f.id # Undefined

\* C21: a fragment that is not a tool call with an id is absorbed, the length staying
\* as it is and every element before the last untouched, exactly when the content is
\* not empty and its last element has the fragment's kind, has merge and its merge
\* accepts; in every other case the fragment is appended as a new last element.
C21_OnlyLastElementMerges ==
    [][(lastOp' = "addContent" /\ ~IsToolCallWithId(lastArg')) =>
          LET f == lastArg'
              n == Len(content)
          IN IF /\ n > 0
                /\ content[n].kind = f.kind
                /\ hasMerge(content[n])
                /\ merge(content[n], f).ok
             THEN /\ Len(content') = n
                  /\ \A j \in 1..(n - 1) : content'[j] = content[j]
                  /\ content'[n] = merge(content[n], f).elem
             ELSE content' = Append(content, f)]_vars

\* C21 witness: text, code, text were added one by one; the second text was appended
\* behind the code element and not merged into the first text.
C21_Witness ==
    /\ lastOp = "addContent"
    /\ history = <<TextChatResponseContentImpl("a"),
                   CodeChatResponseContentImpl("x", Some("ts")),
                   TextChatResponseContentImpl("a")>>
    /\ content = history

\* C22: a tool-call fragment with an id is consumed, the length staying as it is, when
\* an element with the id exists anywhere in the content, and appended otherwise; the
\* content never holds two tool-call elements with the same id.
C22_OneToolCallPerId ==
    [][/\ (lastOp' = "addContent" /\ IsToolCallWithId(lastArg')) =>
             IF ToolCallsWithId(content, lastArg'.id) # {}
             THEN Len(content') = Len(content)
             ELSE content' = Append(content, lastArg')
       /\ \A i, j \in 1..Len(content') :
             (/\ i # j
              /\ IsToolCallWithId(content'[i])
              /\ IsToolCallWithId(content'[j])) => content'[i].id # content'[j].id]_vars

\* C22 witness: a fragment with id t1 arrived when the element with id t1 was not the
\* last element, and was consumed by that element.
C22_Witness ==
    /\ lastOp = "addContent"
    /\ IsToolCallWithId(lastArg) /\ lastArg.id = Some("t1")
    /\ Len(history) = 3
    /\ Len(content) = 2
    /\ content[1].kind = "toolCall" /\ content[1].id = Some("t1")
    /\ content[2].kind = "text"

\* the fragments a content call delivered
CallFragments(op, arg) == IF op = "addContent" THEN <<arg>> ELSE arg

\* C23 as stated: a content call never shrinks the content and modifies no element
\* before the last one.
C23_OnlyLastElementMutated ==
    [][lastOp' \in ContentCalls =>
          /\ Len(content') >= Len(content)
          /\ \A j \in 1..(Len(content) - 1) : content'[j] = content[j]]_vars

\* C23: a content call never shrinks the content and keeps the elements' order; an
\* element before the last one stays as it is, except a tool call whose id a fragment
\* of the call carries, which keeps its place, id, name and arguments and takes the
\* fragment's finished flag and result.
C23_HistoryOnlyExtended ==
    [][lastOp' \in ContentCalls =>
          /\ Len(content') >= Len(content)
          /\ \A j \in 1..(Len(content) - 1) :
                \/ content'[j] = content[j]
                \/ /\ IsToolCallWithId(content[j])
                   /\ \E k \in 1..Len(CallFragments(lastOp', lastArg')) :
                         /\ CallFragments(lastOp', lastArg')[k].kind = "toolCall"
                         /\ CallFragments(lastOp', lastArg')[k].id = content[j].id
                   /\ content'[j].kind = "toolCall"
                   /\ content'[j].id = content[j].id
                   /\ content'[j].name = content[j].name
                   /\ content'[j].arguments = content[j].arguments]_vars

\* C23 witness: a fragment with id t1 changed the tool call t1 in front of a code
\* element.
C23_Witness ==
    /\ lastOp = "addContent"
    /\ Len(content) = 2
    /\ content[1].kind = "toolCall" /\ content[1].id = Some("t1")
    /\ content[1].finished = Some(TRUE) /\ content[1].result = Some("ok")
    /\ content[2].kind = "code"

\* C24: a tool-call fragment without an id is absorbed into the last element exactly
\* when that element is a tool call, the fragment carries no name and it carries
\* arguments; the element's arguments then are its previous arguments (none counting
\* as empty) followed by the fragment's. In every other case the fragment is appended.
C24_ToolCallWithoutId ==
    [][(/\ lastOp' = "addContent"
        /\ lastArg'.kind = "toolCall"
        /\ lastArg'.id = Undefined) =>
          LET f == lastArg'
              n == Len(content)
          IN IF /\ n > 0
                /\ content[n].kind = "toolCall"
                /\ f.name = Undefined
                /\ f.arguments # Undefined
             THEN /\ Len(content') = n
                  /\ content'[n].arguments =
                         Some(OrElse(content[n].arguments, "") \o f.arguments[1])
             ELSE content' = Append(content, f)]_vars

\* C25: when a tool-call fragment with the id of an existing element is added, the
\* element's finished flag and result are the fragment's finished (false when unset)
\* and result, whatever they were before.
C25_FinishedAndResultAdopted ==
    [][(/\ lastOp' = "addContent"
        /\ IsToolCallWithId(lastArg')
        /\ ToolCallsWithId(content, lastArg'.id) # {}) =>
          /\ ToolCallsWithId(content', lastArg'.id) = ToolCallsWithId(content, lastArg'.id)
          /\ \A i \in ToolCallsWithId(content', lastArg'.id) :
                /\ Finished(content'[i]) = Finished(lastArg')
                /\ content'[i].result = lastArg'.result]_vars

\* C25 witness: the fragment with id t1, finished=true and result "ok" was added to a
\* content holding tool call t1, which now is finished with result "ok".
C25_Witness ==
    /\ lastOp = "addContent"
    /\ lastArg = ToolCallChatResponseContentImpl(Some("t1"), Undefined, Undefined,
                                                 Some(TRUE), Some("ok"))
    /\ Len(history) = 2
    /\ history[1] = ToolCallChatResponseContentImpl(Some("t1"), Some("foo"), Undefined,
                                                    Undefined, Undefined)
    /\ Len(content) = 1
    /\ Finished(content[1]) /\ content[1].result = Some("ok")

\* the strings of seq that are defined and not empty, joined by a blank line
RECURSIVE BlankLineJoin(_)
BlankLineJoin(seq) ==
    IF seq = <<>> THEN ""
    ELSE LET rest == BlankLineJoin(Tail(seq))
         IN IF Head(seq) = Undefined \/ Head(seq) = Some("") THEN rest
            ELSE IF rest = "" THEN Head(seq)[1]
            ELSE Head(seq)[1] \o "\n\n" \o rest

\* C26: after every addContent, addContents and selectedOption update asString() is
\* the blank-line join, in order, of the plain strings of the elements that yield a
\* non-empty string, and asDisplayString() the same join with the display string of
\* the elements that have one.
C26_StringsAreJoins ==
    lastOp \in {"addContent", "addContents", "selectedOption"} =>
        /\ responseRepresentation =
               Some(BlankLineJoin([i \in 1..Len(content) |-> asString(content[i])]))
        /\ responseRepresentationForDisplay =
               Some(BlankLineJoin([i \in 1..Len(content) |->
                       IF hasDisplayString(content[i]) THEN asDisplayString(content[i])
                       ELSE asString(content[i])]))

\* the kinds that never merge: no merge (command, error) or a merge that declines
NonMergingKinds == {"question", "command", "error"}

\* C27: a question, command or error fragment is always appended as a new element, so
\* n such fragments in a row give n separate elements.
C27_NonMergingKindsAppend ==
    [][/\ (lastOp' = "addContent" /\ lastArg'.kind \in NonMergingKinds) =>
             content' = Append(content, lastArg')
       /\ (\A i \in 1..Len(history') : history'[i].kind \in NonMergingKinds) =>
             Len(content') = Len(history')]_vars

\* C27 witness: three question fragments were delivered and the content holds three
\* question elements.
C27_Witness ==
    /\ Len(history) = 3
    /\ \A i \in 1..3 : history[i].kind = "question"
    /\ Len(content) = 3
    /\ \A i \in 1..3 : content[i].kind = "question"

\* C28: setting the selected option of a question element stores the option,
\* recomputes asString() and asDisplayString() of the response from the content with
\* the answer, fires exactly one change notification of the response and calls no
\* handler.
C28_AnswerRecomputes ==
    [][lastOp' = "selectedOption" =>
          LET i == lastArg'[1].index
          IN /\ content' = [content EXCEPT ![i].selectedOption = lastArg'[1].option]
             /\ responseRepresentation' =
                    Some(responseRepresentationsToString(content', "asString"))
             /\ responseRepresentationForDisplay' =
                    Some(responseRepresentationsToString(content', "asDisplayString"))
             /\ responseFired' = 1
             /\ modelFired' = 1
             /\ notified' = <<Observable'>>
             /\ handlerCalls' = handlerCalls]_vars

\* C28 witness: the only element is a question whose option "yes" was just selected,
\* and asString() shows the answer.
C28_Witness ==
    /\ lastOp = "selectedOption"
    /\ Len(content) = 1
    /\ content[1].selectedOption = Some("yes")
    /\ responseRepresentation = Some("Question: q\nAnswer: yes")
    /\ modelFired = 1

\* C29: progress-message ids are pairwise distinct; addProgressMessage with an id no
\* entry has (or with no id) appends one entry, with an id in use it patches that entry
\* where it is, keeps the length and the order of the ids and returns the entry, and
\* fires exactly one change notification either way; updateProgressMessage with an
\* unknown id changes nothing and fires nothing.
C29_ProgressKeyedById ==
    [][LET ids(msgs) == [i \in 1..Len(msgs) |-> msgs[i].id]
           used(id) == {i \in 1..Len(progressMessages) : progressMessages[i].id = id}
       IN /\ \A i, j \in 1..Len(progressMessages') :
                i # j => progressMessages'[i].id # progressMessages'[j].id
          /\ lastOp' = "addProgressMessage" =>
                /\ modelFired' = 1
                /\ IF lastArg'.id # Undefined /\ used(lastArg'.id[1]) # {}
                   THEN /\ ids(progressMessages') = ids(progressMessages)
                        /\ \A i \in 1..Len(progressMessages) :
                              i \notin used(lastArg'.id[1]) =>
                                  progressMessages'[i] = progressMessages[i]
                        /\ \E i \in used(lastArg'.id[1]) :
                              /\ returned' = Some(progressMessages'[i])
                              /\ progressMessages'[i].content = lastArg'.content[1]
                   ELSE /\ Len(progressMessages') = Len(progressMessages) + 1
                        /\ SubSeq(progressMessages', 1, Len(progressMessages)) =
                               progressMessages
                        /\ returned' = Some(progressMessages'[Len(progressMessages')])
          /\ (lastOp' = "updateProgressMessage" /\ used(lastArg'.id[1]) = {}) =>
                /\ progressMessages' = progressMessages
                /\ modelFired' = 0]_vars

\* C29 witness: with two entries in the list, addProgressMessage with the id of the
\* first one patched that entry and returned it.
C29_Witness ==
    /\ lastOp = "addProgressMessage"
    /\ lastArg.id = Some("p1")
    /\ Len(progressMessages) = 2
    /\ progressMessages[1].id = "p1"
    /\ progressMessages[2].id # "p1"
    /\ returned = Some(progressMessages[1])
    /\ modelFired = 1

\* C30: removeElement(index) with 0 <= index < length removes the element at that
\* place and keeps the other elements in their order; with an index outside that range
\* it removes nothing.
C30_RemoveElementAtIndex ==
    [][lastOp' = "removeElement" =>
          LET index == lastArg'[1].arg
              old == elements["A"]
              new == elements'["A"]
          IN IF 0 <= index /\ index < Len(old)
             THEN /\ Len(new) = Len(old) - 1
                  /\ \A j \in 1..index : new[j] = old[j]
                  /\ \A j \in (index + 1)..Len(new) : new[j] = old[j + 1]
             ELSE new = old]_vars

\* C31: a mutation of a change set fires 'updateChangeSet' events only while that
\* change set is the conversation's active one, and every such event carries it: a
\* change set that was replaced, deleted or removed drives no event.
C31_OnlyActiveChangeSetFires ==
    (lastOp \in ElementCalls /\ chatFired # <<>>) =>
        /\ changeSet = Some(lastArg[1].changeSet)
        /\ \A i \in 1..Len(chatFired) :
              chatFired[i] = [kind |-> "updateChangeSet",
                              changeSet |-> Some(lastArg[1].changeSet)]

\* C32: isCanceled implies isComplete in every state after a call and in everything
\* shown to an observer during a call: to the listeners of the response's change
\* notifications and to the listeners of its cancellation token, which run while
\* cancel() is executing.
C32_CanceledCompleteForEveryObserver ==
    /\ isCanceled => isComplete
    /\ \A i \in 1..Len(notified) : notified[i].isCanceled => notified[i].isComplete
    /\ \A i \in 1..Len(tokenNotified) :
          tokenNotified[i].isCanceled => tokenNotified[i].isComplete

\* C33: asString() and asDisplayString() of a response always return a string, and
\* while the response has no content (also after it was completed, canceled or errored)
\* both return the empty string.
C33_StringsAlwaysDefined ==
    /\ responseRepresentation # Undefined
    /\ responseRepresentationForDisplay # Undefined
    /\ content = <<>> =>
          /\ responseRepresentation = Some("")
          /\ responseRepresentationForDisplay = Some("")

====
